---- MODULE Spec2Model ----
(***************************************************************************)
(* buddyback/server: device real-time connection and session subsystem.    *)
(*                                                                         *)
(* The store (Device, Session, PostureReading rows), the channel layer's   *)
(* groups, the DeviceConsumer instances and the REST request threads are   *)
(* the state.  A handler that reads the store and later writes it without  *)
(* a transaction or lock is split at the point between the read and the    *)
(* write, because other threads and processes run in between.              *)
(***************************************************************************)
EXTENDS Integers, Sequences, FiniteSets, TLC

\* ---------------------------------------------------------------- bounds
\* last value of the clock
MaxClock == 1
\* Session rows the store holds
MaxSessions == 2
\* PostureReading rows the store holds
MaxReadings == 1
\* frames already sent on a connection beyond which it handles nothing more
MaxOut == 2
\* events a channel queues; the channel layer drops what exceeds its capacity
MaxMailbox == 1
\* largest score of a submitted component
MaxScore == 2
\* most components of a submitted payload
MaxLen == 4

\* ------------------------------------------------------------- constants
\* end_time / last_seen that is SQL NULL
NULL == -1
\* seconds of wall-clock time that one step of the model clock stands for
TickSeconds == 60 * 60
\* timedelta(seconds=60*60)
InactivitySeconds == 60 * 60
\* close code of a refused handshake
CloseCodeAuthFailed == 4003
\* default of sensitivity / vibration_intensity / audio_intensity
DefaultIntensity == 50

\* Texts a client can write in the URL as device id.
\*   "d1"  canonical (lower case, hyphenated) text of the UUID of device d1
\*   "D1"  the same UUID written another way uuid.UUID accepts (in upper
\*         case, without hyphens)
\*   "d9"  a well-formed UUID no Device row has
\*   "zz"  not a UUID
IdTexts == {"d1", "D1", "d9", "zz"}
ApiKeys == {"k1", "bad"}

\* uuid.UUID(text): the UUID value, or "ValueError"
UUID(text) ==
    CASE text = "d1" -> "d1"
      [] text = "D1" -> "d1"
      [] text = "d9" -> "d9"
      [] OTHER -> "ValueError"

COMPONENT_TYPES == {"neck", "torso", "shoulders"}
required_types == <<"neck", "torso", "shoulders">>

VARIABLES
    clock,      \* now(), in ticks
    device,     \* Device table: id -> row
    sessions,   \* Session table: pk -> row
    readings,   \* PostureReading table with its PostureComponent rows
    groups,     \* channel layer: group name (by id text) -> channels
    mailbox,    \* channel layer: channel -> events not yet handled
    conn,       \* DeviceConsumer instances
    out,        \* frames sent on each connection
    req,        \* REST request threads
    stopped_by  \* per Session pk: the stop operations that reported stopping it

vars == <<clock, device, sessions, readings, groups, mailbox, conn, out, req, stopped_by>>

\* ------------------------------------------------------------ the store
Range(s) == {s[i] : i \in DOMAIN s}

now == clock

\* Session.objects.filter(device=d, end_time__isnull=True)
ActiveSessions(d) ==
    {i \in DOMAIN sessions : sessions[i].device = d /\ sessions[i].end_time = NULL}

\* .exists()
has_active_session(d) == ActiveSessions(d) # {}

\* .first(): the row with the lowest pk, 0 for None
first_active_session(d) ==
    IF ActiveSessions(d) = {} THEN 0
    ELSE CHOOSE i \in ActiveSessions(d) : \A j \in ActiveSessions(d) : i <= j

\* device.posture_readings.order_by("-timestamp").first().timestamp, NULL for None
last_reading_timestamp(d) ==
    LET ts == {readings[i].timestamp : i \in {j \in DOMAIN readings : readings[j].device = d}}
    IN IF ts = {} THEN NULL ELSE CHOOSE t \in ts : \A u \in ts : u <= t

\* device.save(update_fields=["last_seen"]) with last_seen = now()
touch_last_seen(d) ==
    IF d \in DOMAIN device THEN [device EXCEPT ![d].last_seen = now] ELSE device

\* session.end_time = now(); session.save(update_fields=["end_time"])
save_end_time(s) == [sessions EXCEPT ![s].end_time = now]

\* a stop that marks the session idle
save_stopped_session_idle(s) == [sessions EXCEPT ![s].end_time = now, ![s].is_idle = TRUE]

\* active_session.end_time = now(); active_session.is_idle = False; active_session.save()
save_stopped_session(s) == [sessions EXCEPT ![s].end_time = now, ![s].is_idle = FALSE]

\* Session.objects.create(device=device)
create_session(d) ==
    Append(sessions, [device |-> d, start_time |-> now, end_time |-> NULL, is_idle |-> FALSE])

\* ------------------------------------------------------- reading ingest
RECURSIVE SumScores(_)
SumScores(components) ==
    IF components = <<>> THEN 0
    ELSE Head(components).score + SumScores(Tail(components))

TypesOf(components) == {components[i].component_type : i \in DOMAIN components}

\* PostureComponentSerializer: the fields of one component
\* (choice field, min_value 0 from MinValueValidator(0), is_correct required)
valid_component(c) ==
    /\ c.component_type \in COMPONENT_TYPES
    /\ c.score >= 0
    /\ c.is_correct # "missing"

\* validate_components without its check for duplicates
validate_components_no_duplicate_check(components) ==
    IF components = <<>> THEN "At least one posture component is required"
    ELSE IF Range(required_types) \ TypesOf(components) # {}
         THEN "Missing required component types"
    ELSE ""

\* PostureReadingSerializer.validate_components: "" or the error
validate_components(components) ==
    IF components = <<>> THEN "At least one posture component is required"
    ELSE IF Len(components) # Cardinality(TypesOf(components))
         THEN "Duplicate component types are not allowed"
    ELSE IF Range(required_types) \ TypesOf(components) # {}
         THEN "Missing required component types"
    ELSE ""

\* serializer.is_valid(): field validation of every child, then validate_components
serializer_errors(components) ==
    IF \E i \in DOMAIN components : ~valid_component(components[i])
    THEN "Invalid component"
    ELSE validate_components(components)

\* create that rounds the mean to the nearest integer instead of flooring it
create_reading_rounded(d, components) ==
    LET total_score == SumScores(components)
        component_count == Len(components)
    IN [device |-> d,
        timestamp |-> now,
        overall_score |-> IF component_count > 0
                          THEN (2 * total_score + component_count) \div (2 * component_count)
                          ELSE 0,
        components |-> components]

\* PostureReadingSerializer.create: the Reading row with its Component rows
create_reading(d, components) ==
    LET total_score == SumScores(components)
        component_count == Len(components)
    IN [device |-> d,
        timestamp |-> now,
        overall_score |-> IF component_count > 0 THEN total_score \div component_count ELSE 0,
        components |-> components]

\* ------------------------------------------------------- channel layer
\* str(device.id): the canonical text of a UUID
str(u) == u

\* channel_layer.group_add(group_name, channel_name)
group_add(g, c) == [groups EXCEPT ![g] = @ \cup {c}]

\* group_discard that empties the group
group_discard_whole_group(g, c) == [groups EXCEPT ![g] = {}]

\* channel_layer.group_discard(group_name, channel_name)
group_discard(g, c) == [groups EXCEPT ![g] = @ \ {c}]

\* a send that reaches every channel, whatever its group
group_send_broadcast(d, event) ==
    [c \in DOMAIN mailbox |->
        IF Len(mailbox[c]) < MaxMailbox THEN Append(mailbox[c], event) ELSE mailbox[c]]

\* channel_layer.group_send(f"device_settings_{device_id}", event): every
\* channel of the group gets the event unless its queue is at capacity
group_send(d, event) ==
    [c \in DOMAIN mailbox |->
        IF c \in groups[str(d)] /\ Len(mailbox[c]) < MaxMailbox
        THEN Append(mailbox[c], event)
        ELSE mailbox[c]]

\* the event of the notify_settings_change methods; of its settings the
\* sensitivity stands for the three intensities
SettingsEvent(d, settings) ==
    [type |-> "device_settings_update", device_id |-> str(d), settings |-> settings]

\* DeviceViewSet.notify_settings_change(device)
notify_settings_change(d, dev) ==
    group_send(d, SettingsEvent(d, [sensitivity |-> dev.sensitivity]))

\* SessionStartView.notify_settings_change(device)
start_notify_settings_change(d, dev) ==
    group_send(d, SettingsEvent(d, [sensitivity |-> dev.sensitivity,
                                    has_active_session |-> TRUE]))

\* SessionStopView.notify_settings_change(device)
stop_notify_settings_change(d, dev) ==
    group_send(d, SettingsEvent(d, [sensitivity |-> dev.sensitivity,
                                    has_active_session |-> FALSE]))

\* ------------------------------------------------------------- frames
SettingsFrame(dev, active) ==
    [type |-> "settings",
     data |-> [sensitivity |-> dev.sensitivity,
               vibration_intensity |-> dev.vibration_intensity,
               audio_intensity |-> dev.audio_intensity,
               has_active_session |-> active]]

SessionStatusFrame(action, active) ==
    [type |-> "session_status", action |-> action, has_active_session |-> active]

SessionStatusStopFrame == SessionStatusFrame("stop", FALSE)

PostureSuccessFrame == [type |-> "posture_data_response", status |-> "success"]

PostureErrorFrame(error) ==
    [type |-> "posture_data_response", status |-> "error", error |-> error]

ErrorFrame(error) == [type |-> "error", error |-> error]

\* str(e) of the exceptions that reach a frame
AttributeErrorText == "'int' object has no attribute 'get'"
DatabaseErrorText == "database is locked"

\* the frame of get_device_settings' except clause
SettingsErrorFrame(e) ==
    [type |-> "settings",
     data |-> [sensitivity |-> 0,
               vibration_intensity |-> 0,
               audio_intensity |-> 0,
               has_active_session |-> FALSE,
               error |-> e]]

\* ------------------------------------------------------ DeviceConsumer
NoDevice == [id |-> "None"]

\* the Device instance a consumer keeps in self.device
DeviceObject(d) ==
    [id |-> d,
     sensitivity |-> device[d].sensitivity,
     vibration_intensity |-> device[d].vibration_intensity,
     audio_intensity |-> device[d].audio_intensity]

NewConsumer ==
    [state |-> "connecting", device_id |-> "", api_key |-> "", device |-> NoDevice,
     group_name |-> "", accepted |-> FALSE, close_code |-> 0, session |-> 0, data |-> <<>>]

\* get_device that looks the device up by id alone
get_device_by_id_only(device_id, api_key) ==
    LET device_uuid == UUID(device_id)
    IN IF device_uuid = "ValueError" THEN "None"
       ELSE IF device_uuid \in DOMAIN device THEN device_uuid ELSE "None"

\* DeviceConsumer.get_device: the pk of the authenticated Device, or "None"
get_device(device_id, api_key) ==
    LET device_uuid == UUID(device_id)
    IN IF device_uuid = "ValueError" THEN "None"
       ELSE IF device_uuid \in DOMAIN device /\ device[device_uuid].api_key = api_key
            THEN device_uuid
            ELSE "None"

\* DeviceConsumer.connect.  A consumer handles one message at a time, so no
\* event or frame of this connection is handled before connect returns; the
\* handshake is one step.  A refused handshake is closed and then torn down
\* by disconnect.
connect(c, device_id, api_key) ==
    /\ conn[c].state = "connecting"
    /\ LET d == get_device(device_id, api_key)
       IN IF d = "None"
          THEN /\ conn' = [conn EXCEPT ![c].state = "rejected",
                                       ![c].device_id = device_id,
                                       ![c].api_key = api_key,
                                       ![c].close_code = CloseCodeAuthFailed]
               /\ UNCHANGED <<device, groups, out>>
          ELSE /\ device' = touch_last_seen(d)
               /\ groups' = group_add(device_id, c)
               /\ conn' = [conn EXCEPT ![c].state = "active",
                                       ![c].device_id = device_id,
                                       ![c].api_key = api_key,
                                       ![c].device = DeviceObject(d),
                                       ![c].group_name = device_id,
                                       ![c].accepted = TRUE]
               /\ out' = [out EXCEPT ![c] =
                            Append(@, SettingsFrame(DeviceObject(d), has_active_session(d)))]
    /\ UNCHANGED <<clock, sessions, readings, mailbox, req, stopped_by>>

\* a disconnect that looks for the session of the device its URL names,
\* authenticated or not
disconnect_unauthenticated_stops(c) ==
    /\ conn[c].state \in {"rejected", "active"}
    /\ LET session == IF UUID(conn[c].device_id) \in DOMAIN device
                      THEN first_active_session(UUID(conn[c].device_id))
                      ELSE 0
       IN IF session # 0
          THEN /\ conn' = [conn EXCEPT ![c].state = "disconnect_stop", ![c].session = session]
               /\ UNCHANGED groups
          ELSE /\ conn' = [conn EXCEPT ![c].state = "closed"]
               /\ groups' = IF conn[c].group_name = "" THEN groups
                             ELSE group_discard(conn[c].group_name, c)
    /\ UNCHANGED <<clock, device, sessions, readings, mailbox, out, req, stopped_by>>

\* DeviceConsumer.disconnect, up to the query of stop_active_session
disconnect(c) ==
    /\ conn[c].state \in {"rejected", "active"}
    /\ IF conn[c].device = NoDevice
       THEN /\ conn' = [conn EXCEPT ![c].state = "closed"]
            /\ UNCHANGED groups
       ELSE LET session == first_active_session(conn[c].device.id)
            IN IF session # 0
               THEN /\ conn' = [conn EXCEPT ![c].state = "disconnect_stop",
                                            ![c].session = session]
                    /\ UNCHANGED groups
               ELSE /\ conn' = [conn EXCEPT ![c].state = "closed"]
                    /\ groups' = group_discard(conn[c].group_name, c)
    /\ UNCHANGED <<clock, device, sessions, readings, mailbox, out, req, stopped_by>>

\* DeviceConsumer.disconnect, from the save of stop_active_session on
disconnect_stop(c) ==
    /\ conn[c].state = "disconnect_stop"
    /\ sessions' = save_end_time(conn[c].session)
    /\ stopped_by' = [stopped_by EXCEPT ![conn[c].session] = @ \cup {c}]
    /\ groups' = group_discard(conn[c].group_name, c)
    /\ conn' = [conn EXCEPT ![c].state = "closed", ![c].session = 0]
    /\ UNCHANGED <<clock, device, readings, mailbox, out, req>>

\* disconnect whose stop_active_session lets the storage error out, so that
\* the group_discard after it is not reached
disconnect_error_propagates(c) ==
    /\ conn[c].state \in {"active", "disconnect_stop"}
    /\ conn' = [conn EXCEPT ![c].state = "closed", ![c].session = 0]
    /\ UNCHANGED <<clock, device, sessions, readings, groups, mailbox, out, req, stopped_by>>

\* DeviceConsumer.disconnect when the store raises in stop_active_session, at
\* the query or at the save: the except clause logs it and returns False, and
\* disconnect goes on to group_discard
disconnect_error(c) ==
    /\ conn[c].state \in {"active", "disconnect_stop"}
    /\ groups' = group_discard(conn[c].group_name, c)
    /\ conn' = [conn EXCEPT ![c].state = "closed", ![c].session = 0]
    /\ UNCHANGED <<clock, device, sessions, readings, mailbox, out, req, stopped_by>>

\* the connection still handles frames and events
CanSend(c) == Len(out[c]) < MaxOut

\* DeviceConsumer.receive of a heartbeat frame, up to the queries of
\* stop_session_if_no_data_received_for_too_long
receive_heartbeat(c) ==
    /\ conn[c].state = "active"
    /\ CanSend(c)
    /\ device' = touch_last_seen(conn[c].device.id)
    /\ LET session == first_active_session(conn[c].device.id)
           time_threshold == now * TickSeconds - InactivitySeconds
           last_reading == last_reading_timestamp(conn[c].device.id)
       IN IF session # 0 /\ last_reading # NULL /\ last_reading * TickSeconds > time_threshold
          THEN conn' = [conn EXCEPT ![c].state = "heartbeat_stop", ![c].session = session]
          ELSE UNCHANGED conn
    /\ UNCHANGED <<clock, sessions, readings, groups, mailbox, out, req, stopped_by>>

\* DeviceConsumer.receive of a heartbeat frame, from the save of
\* stop_session_if_no_data_received_for_too_long on
heartbeat_stop(c) ==
    /\ conn[c].state = "heartbeat_stop"
    /\ sessions' = save_end_time(conn[c].session)
    /\ stopped_by' = [stopped_by EXCEPT ![conn[c].session] = @ \cup {c}]
    /\ device' = touch_last_seen(conn[c].device.id)
    /\ out' = [out EXCEPT ![c] =
                 @ \o <<SettingsFrame(conn[c].device,
                                      \E i \in DOMAIN sessions' :
                                          /\ sessions'[i].device = conn[c].device.id
                                          /\ sessions'[i].end_time = NULL),
                        SessionStatusStopFrame>>]
    /\ conn' = [conn EXCEPT ![c].state = "active", ![c].session = 0]
    /\ UNCHANGED <<clock, readings, groups, mailbox, req>>

\* DeviceConsumer.receive of a settings_request frame
receive_settings_request(c) ==
    /\ conn[c].state = "active"
    /\ CanSend(c)
    /\ device' = touch_last_seen(conn[c].device.id)
    /\ out' = [out EXCEPT ![c] =
                 Append(@, SettingsFrame(conn[c].device, has_active_session(conn[c].device.id)))]
    /\ UNCHANGED <<clock, sessions, readings, groups, mailbox, conn, req, stopped_by>>

\* frame types that no branch of receive handles
UnhandledTypes == {"exit_idle_mode", "unknown"}

\* DeviceConsumer.receive of a frame whose type is none of heartbeat,
\* settings_request and posture_data: only the update_last_seen at its end
receive_unhandled_type(c, message_type) ==
    /\ conn[c].state = "active"
    /\ CanSend(c)
    /\ message_type \in UnhandledTypes
    /\ device' = touch_last_seen(conn[c].device.id)
    /\ UNCHANGED <<clock, sessions, readings, groups, mailbox, conn, out, req, stopped_by>>

\* receive that closes the connection on a frame json.loads refuses
receive_invalid_json_closes(c) ==
    /\ conn[c].state = "active"
    /\ Len(out[c]) < MaxOut
    /\ out' = [out EXCEPT ![c] = Append(@, ErrorFrame("Invalid JSON format"))]
    /\ groups' = group_discard(conn[c].group_name, c)
    /\ conn' = [conn EXCEPT ![c].state = "closed"]
    /\ UNCHANGED <<clock, device, sessions, readings, mailbox, req, stopped_by>>

\* DeviceConsumer.receive of a text frame that json.loads refuses
receive_invalid_json(c) ==
    /\ conn[c].state = "active"
    /\ CanSend(c)
    /\ out' = [out EXCEPT ![c] = Append(@, ErrorFrame("Invalid JSON format"))]
    /\ UNCHANGED <<clock, device, sessions, readings, groups, mailbox, conn, req, stopped_by>>

\* DeviceConsumer.receive of a text frame that is JSON but not an object
\* (a number, a string, a list, null): data.get raises AttributeError, which
\* the except Exception clause turns into an error frame; the update_last_seen
\* at the end of the try block is not reached
receive_non_object(c) ==
    /\ conn[c].state = "active"
    /\ CanSend(c)
    /\ out' = [out EXCEPT ![c] =
                 Append(@, ErrorFrame("Error processing message: " \o AttributeErrorText))]
    /\ UNCHANGED <<clock, device, sessions, readings, groups, mailbox, conn, req, stopped_by>>

\* A binary frame.  receive is declared receive(self, text_data); the
\* framework hands a binary frame over as receive(bytes_data=...), so the call
\* raises TypeError before the try block is entered.  Nothing catches it: the
\* consumer's task ends with the exception and the server drops the
\* connection; disconnect does not run.
receive_bytes(c) ==
    /\ conn[c].state = "active"
    /\ CanSend(c)
    /\ conn' = [conn EXCEPT ![c].state = "closed"]
    /\ UNCHANGED <<clock, device, sessions, readings, groups, mailbox, out, req, stopped_by>>

\* DeviceConsumer.receive of a settings_request frame while the store
\* fails: get_device_settings answers from its except clause, and the
\* update_last_seen after it fails and is absorbed
receive_settings_request_error(c) ==
    /\ conn[c].state = "active"
    /\ CanSend(c)
    /\ out' = [out EXCEPT ![c] = Append(@, SettingsErrorFrame(DatabaseErrorText))]
    /\ UNCHANGED <<clock, device, sessions, readings, groups, mailbox, conn, req, stopped_by>>

\* readings the store still has room for, counting the saves under way
ReadingRoom ==
    Len(readings)
    + Cardinality({c \in DOMAIN conn : conn[c].state = "posture_save"})
    + Cardinality({r \in DOMAIN req : req[r].pc = "posture_save"})
    < MaxReadings

\* receive of a posture_data frame without the active-session check
receive_posture_data_unchecked(c, data) ==
    /\ conn[c].state = "active"
    /\ Len(out[c]) < MaxOut
    /\ conn' = [conn EXCEPT ![c].state = "posture_save", ![c].data = data]
    /\ UNCHANGED <<clock, device, sessions, readings, groups, mailbox, out, req, stopped_by>>

\* DeviceConsumer.receive of a posture_data frame, up to the active-session
\* check of process_posture_data_sync
receive_posture_data(c, data) ==
    /\ conn[c].state = "active"
    /\ CanSend(c)
    /\ ReadingRoom
    /\ IF ~has_active_session(conn[c].device.id)
       THEN /\ out' = [out EXCEPT ![c] = Append(@,
                    PostureErrorFrame("Device must have an active session to submit posture data"))]
            /\ device' = touch_last_seen(conn[c].device.id)
            /\ UNCHANGED conn
       ELSE /\ conn' = [conn EXCEPT ![c].state = "posture_save", ![c].data = data]
            /\ UNCHANGED <<out, device>>
    /\ UNCHANGED <<clock, sessions, readings, groups, mailbox, req, stopped_by>>

\* posture_save that answers success whatever the serializer said
posture_save_always_success(c) ==
    /\ conn[c].state = "posture_save"
    /\ IF serializer_errors(conn[c].data) = ""
       THEN readings' = Append(readings, create_reading(conn[c].device.id, conn[c].data))
       ELSE UNCHANGED readings
    /\ out' = [out EXCEPT ![c] = Append(@, PostureSuccessFrame)]
    /\ device' = touch_last_seen(conn[c].device.id)
    /\ conn' = [conn EXCEPT ![c].state = "active", ![c].data = <<>>]
    /\ UNCHANGED <<clock, sessions, groups, mailbox, req, stopped_by>>

\* DeviceConsumer.receive of a posture_data frame, from the serializer of
\* process_posture_data_sync on
posture_save(c) ==
    /\ conn[c].state = "posture_save"
    /\ LET errors == serializer_errors(conn[c].data)
       IN IF errors = ""
          THEN /\ readings' = Append(readings, create_reading(conn[c].device.id, conn[c].data))
               /\ out' = [out EXCEPT ![c] = Append(@, PostureSuccessFrame)]
          ELSE /\ UNCHANGED readings
               /\ out' = [out EXCEPT ![c] = Append(@, PostureErrorFrame(errors))]
    /\ device' = touch_last_seen(conn[c].device.id)
    /\ conn' = [conn EXCEPT ![c].state = "active", ![c].data = <<>>]
    /\ UNCHANGED <<clock, sessions, groups, mailbox, req, stopped_by>>

\* DeviceConsumer.session_status_event: an event of the channel layer of
\* type session_status_event, which no view publishes
session_status_event(c) ==
    /\ conn[c].state = "active"
    /\ mailbox[c] # <<>>
    /\ Head(mailbox[c]).type = "session_status_event"
    /\ CanSend(c)
    /\ mailbox' = [mailbox EXCEPT ![c] = Tail(@)]
    /\ IF Head(mailbox[c]).device_id = conn[c].device_id
       THEN out' = [out EXCEPT ![c] =
                      Append(@, SessionStatusFrame(Head(mailbox[c]).action,
                                                   Head(mailbox[c]).has_active_session))]
       ELSE UNCHANGED out
    /\ UNCHANGED <<clock, device, sessions, readings, groups, conn, req, stopped_by>>

\* DeviceConsumer.device_settings_update: an event of the channel layer of
\* type device_settings_update
device_settings_update(c) ==
    /\ conn[c].state = "active"
    /\ mailbox[c] # <<>>
    /\ Head(mailbox[c]).type = "device_settings_update"
    /\ CanSend(c)
    /\ mailbox' = [mailbox EXCEPT ![c] = Tail(@)]
    /\ IF Head(mailbox[c]).device_id = conn[c].device_id
       THEN LET d == conn[c].device.id
            IN /\ conn' = [conn EXCEPT ![c].device = DeviceObject(d)]
               /\ device' = touch_last_seen(d)
               /\ out' = [out EXCEPT ![c] =
                            Append(@, SettingsFrame(DeviceObject(d), has_active_session(d)))]
       ELSE UNCHANGED <<conn, device, out>>
    /\ UNCHANGED <<clock, sessions, readings, groups, req, stopped_by>>

\* device_settings_update when refresh_from_db raises: refresh_device logs the
\* error and returns False, the handler goes on, and get_device_settings
\* builds the snapshot from the device object the consumer holds
device_settings_update_refresh_error(c) ==
    /\ conn[c].state = "active"
    /\ mailbox[c] # <<>>
    /\ Head(mailbox[c]).type = "device_settings_update"
    /\ Head(mailbox[c]).device_id = conn[c].device_id
    /\ CanSend(c)
    /\ mailbox' = [mailbox EXCEPT ![c] = Tail(@)]
    /\ device' = touch_last_seen(conn[c].device.id)
    /\ out' = [out EXCEPT ![c] =
                 Append(@, SettingsFrame(conn[c].device, has_active_session(conn[c].device.id)))]
    /\ UNCHANGED <<clock, sessions, readings, groups, conn, req, stopped_by>>

\* device_settings_update when the store raises in get_device_settings too
device_settings_update_error(c) ==
    /\ conn[c].state = "active"
    /\ mailbox[c] # <<>>
    /\ Head(mailbox[c]).type = "device_settings_update"
    /\ Head(mailbox[c]).device_id = conn[c].device_id
    /\ CanSend(c)
    /\ mailbox' = [mailbox EXCEPT ![c] = Tail(@)]
    /\ out' = [out EXCEPT ![c] = Append(@, SettingsErrorFrame(DatabaseErrorText))]
    /\ UNCHANGED <<clock, device, sessions, readings, groups, conn, req, stopped_by>>

\* ------------------------------------------------------------ REST views
IdleRequest == [pc |-> "idle", device |-> "", session |-> 0, data |-> <<>>, response |-> ""]

\* sessions the store still has room for, counting the creates under way
SessionRoom ==
    Len(sessions) + Cardinality({r \in DOMAIN req : req[r].pc = "start_create"}) < MaxSessions

\* SessionStartView.put, up to the query for an active session
session_start_put(r, d) ==
    /\ req[r].pc = "idle"
    /\ SessionRoom
    /\ IF first_active_session(d) # 0
       THEN req' = [req EXCEPT ![r].response = "Session already active"]
       ELSE req' = [req EXCEPT ![r].pc = "start_create", ![r].device = d, ![r].response = ""]
    /\ UNCHANGED <<clock, device, sessions, readings, groups, mailbox, conn, out, stopped_by>>

\* SessionStartView.put, from Session.objects.create on
session_start_create(r) ==
    /\ req[r].pc = "start_create"
    /\ sessions' = create_session(req[r].device)
    /\ stopped_by' = Append(stopped_by, {})
    /\ mailbox' = start_notify_settings_change(req[r].device, device[req[r].device])
    /\ req' = [req EXCEPT ![r] = [IdleRequest EXCEPT !.response = "Session started"]]
    /\ UNCHANGED <<clock, device, readings, groups, conn, out>>

\* SessionStopView.put, up to the query for the active session
session_stop_put(r, d) ==
    /\ req[r].pc = "idle"
    /\ LET active_session == first_active_session(d)
       IN IF active_session = 0
          THEN req' = [req EXCEPT ![r].response = "No active session"]
          ELSE req' = [req EXCEPT ![r].pc = "stop_save", ![r].device = d,
                                  ![r].session = active_session, ![r].response = ""]
    /\ UNCHANGED <<clock, device, sessions, readings, groups, mailbox, conn, out, stopped_by>>

\* SessionStopView.put, from active_session.save() on
session_stop_save(r) ==
    /\ req[r].pc = "stop_save"
    /\ sessions' = save_stopped_session(req[r].session)
    /\ stopped_by' = [stopped_by EXCEPT ![req[r].session] = @ \cup {r}]
    /\ mailbox' = stop_notify_settings_change(req[r].device, device[req[r].device])
    /\ req' = [req EXCEPT ![r] = [IdleRequest EXCEPT !.response = "Session stopped"]]
    /\ UNCHANGED <<clock, device, readings, groups, conn, out>>

\* DeviceAPIKeyAuthentication.authenticate
authenticate(device_id, api_key) ==
    LET uuid_obj == UUID(device_id)
    IN IF uuid_obj = "ValueError" THEN "AuthenticationFailed"
       ELSE IF /\ uuid_obj \in DOMAIN device
               /\ device[uuid_obj].api_key = api_key
               /\ device[uuid_obj].is_active
            THEN uuid_obj
            ELSE "AuthenticationFailed"

\* PostureDataViewSet.create, up to the active-session check of perform_create
posture_create(r, device_id, api_key, data) ==
    /\ req[r].pc = "idle"
    /\ ReadingRoom
    /\ LET user == authenticate(device_id, api_key)
       IN IF user = "AuthenticationFailed"
          THEN req' = [req EXCEPT ![r].response = "Invalid device credentials"]
          ELSE IF serializer_errors(data) # ""
          THEN req' = [req EXCEPT ![r].response = "Invalid data"]
          ELSE IF ~has_active_session(user)
          THEN req' = [req EXCEPT ![r].response = "Device must have an active session"]
          ELSE req' = [req EXCEPT ![r].pc = "posture_save", ![r].device = user,
                                  ![r].data = data, ![r].response = ""]
    /\ UNCHANGED <<clock, device, sessions, readings, groups, mailbox, conn, out, stopped_by>>

\* PostureDataViewSet.perform_create, serializer.save(device=device)
posture_perform_save(r) ==
    /\ req[r].pc = "posture_save"
    /\ readings' = Append(readings, create_reading(req[r].device, req[r].data))
    /\ req' = [req EXCEPT ![r] = [IdleRequest EXCEPT !.response = "Created"]]
    /\ UNCHANGED <<clock, device, sessions, groups, mailbox, conn, out, stopped_by>>

\* values a client writes into a setting of its device
SettingValues == {0, DefaultIntensity}

\* DeviceViewSet.update / partial_update of the sensitivity
device_update(r, pk, sensitivity) ==
    /\ req[r].pc = "idle"
    /\ device' = [device EXCEPT ![pk].sensitivity = sensitivity]
    /\ mailbox' = notify_settings_change(pk, device'[pk])
    /\ req' = [req EXCEPT ![r].response = "Updated"]
    /\ UNCHANGED <<clock, sessions, readings, groups, conn, out, stopped_by>>

\* DeviceViewSet.claim_device
claim_device(r, pk) ==
    /\ req[r].pc = "idle"
    /\ IF pk \in DOMAIN device /\ ~device[pk].is_active
       THEN /\ device' = [device EXCEPT ![pk].is_active = TRUE]
            /\ mailbox' = notify_settings_change(pk, device'[pk])
            /\ req' = [req EXCEPT ![r].response = "Device claimed"]
       ELSE /\ req' = [req EXCEPT ![r].response = "Device not found or already claimed."]
            /\ UNCHANGED <<device, mailbox>>
    /\ UNCHANGED <<clock, sessions, readings, groups, conn, out, stopped_by>>

\* pks of the Session rows that device.sessions.all().delete() leaves
kept_sessions(d) ==
    SelectSeq([i \in DOMAIN sessions |-> i], LAMBDA i : sessions[i].device # d)

\* DeviceViewSet.release_device; the owner of a device is the user who
\* claimed it, and a claimed device is the active one
release_device(r, pk) ==
    /\ req[r].pc = "idle"
    /\ IF pk \in DOMAIN device /\ device[pk].is_active
       THEN /\ readings' = SelectSeq(readings, LAMBDA x : x.device # pk)
            /\ sessions' = [k \in DOMAIN kept_sessions(pk) |-> sessions[kept_sessions(pk)[k]]]
            /\ stopped_by' = [k \in DOMAIN kept_sessions(pk) |-> stopped_by[kept_sessions(pk)[k]]]
            /\ device' = [device EXCEPT ![pk].sensitivity = DefaultIntensity,
                                        ![pk].vibration_intensity = DefaultIntensity,
                                        ![pk].audio_intensity = DefaultIntensity,
                                        ![pk].is_active = FALSE]
            /\ mailbox' = notify_settings_change(pk, device'[pk])
            /\ req' = [req EXCEPT ![r].response = "Device released successfully"]
       ELSE /\ req' = [req EXCEPT ![r].response = "Device not found or not owned by you."]
            /\ UNCHANGED <<device, sessions, readings, mailbox, stopped_by>>
    /\ UNCHANGED <<clock, groups, conn, out>>

\* ---------------------------------------- REST views, the bus unavailable
\* In each of these group_send raises inside notify_settings_change, whose
\* except clause logs the error.

\* DeviceViewSet.update / partial_update
device_update_publish_error(r, pk, sensitivity) ==
    /\ req[r].pc = "idle"
    /\ device' = [device EXCEPT ![pk].sensitivity = sensitivity]
    /\ req' = [req EXCEPT ![r].response = "Updated"]
    /\ UNCHANGED <<clock, sessions, readings, groups, mailbox, conn, out, stopped_by>>

\* DeviceViewSet.claim_device
claim_device_publish_error(r, pk) ==
    /\ req[r].pc = "idle"
    /\ pk \in DOMAIN device /\ ~device[pk].is_active
    /\ device' = [device EXCEPT ![pk].is_active = TRUE]
    /\ req' = [req EXCEPT ![r].response = "Device claimed"]
    /\ UNCHANGED <<clock, sessions, readings, groups, mailbox, conn, out, stopped_by>>

\* DeviceViewSet.release_device
release_device_publish_error(r, pk) ==
    /\ req[r].pc = "idle"
    /\ pk \in DOMAIN device /\ device[pk].is_active
    /\ readings' = SelectSeq(readings, LAMBDA x : x.device # pk)
    /\ sessions' = [k \in DOMAIN kept_sessions(pk) |-> sessions[kept_sessions(pk)[k]]]
    /\ stopped_by' = [k \in DOMAIN kept_sessions(pk) |-> stopped_by[kept_sessions(pk)[k]]]
    /\ device' = [device EXCEPT ![pk].sensitivity = DefaultIntensity,
                                ![pk].vibration_intensity = DefaultIntensity,
                                ![pk].audio_intensity = DefaultIntensity,
                                ![pk].is_active = FALSE]
    /\ req' = [req EXCEPT ![r].response = "Device released successfully"]
    /\ UNCHANGED <<clock, groups, mailbox, conn, out>>

\* the publish error reaches the response of the session start
session_start_create_publish_error_propagates(r) ==
    /\ req[r].pc = "start_create"
    /\ sessions' = create_session(req[r].device)
    /\ stopped_by' = Append(stopped_by, {})
    /\ req' = [req EXCEPT ![r] = [IdleRequest EXCEPT !.response = "Internal Server Error"]]
    /\ UNCHANGED <<clock, device, readings, groups, mailbox, conn, out>>

\* SessionStartView.put, from Session.objects.create on
session_start_create_publish_error(r) ==
    /\ req[r].pc = "start_create"
    /\ sessions' = create_session(req[r].device)
    /\ stopped_by' = Append(stopped_by, {})
    /\ req' = [req EXCEPT ![r] = [IdleRequest EXCEPT !.response = "Session started"]]
    /\ UNCHANGED <<clock, device, readings, groups, mailbox, conn, out>>

\* SessionStopView.put, from active_session.save() on
session_stop_save_publish_error(r) ==
    /\ req[r].pc = "stop_save"
    /\ sessions' = save_stopped_session(req[r].session)
    /\ stopped_by' = [stopped_by EXCEPT ![req[r].session] = @ \cup {r}]
    /\ req' = [req EXCEPT ![r] = [IdleRequest EXCEPT !.response = "Session stopped"]]
    /\ UNCHANGED <<clock, device, readings, groups, mailbox, conn, out>>

\* SessionStopView.put, from active_session.save() on, when the store raises
\* in _process_session_data or _initialize_user_ranks: no except clause
\* encloses them, so notify_settings_change is not reached and the request
\* ends with the error
session_stop_rank_error(r) ==
    /\ req[r].pc = "stop_save"
    /\ sessions' = save_stopped_session(req[r].session)
    /\ stopped_by' = [stopped_by EXCEPT ![req[r].session] = @ \cup {r}]
    /\ req' = [req EXCEPT ![r] = [IdleRequest EXCEPT !.response = "Internal Server Error"]]
    /\ UNCHANGED <<clock, device, readings, groups, mailbox, conn, out>>

\* ------------------------------------------------------------- the clock
Tick ==
    /\ clock < MaxClock
    /\ clock' = clock + 1
    /\ UNCHANGED <<device, sessions, readings, groups, mailbox, conn, out, req, stopped_by>>

\* ------------------------------------------------------- specifications
\* The full system (Spec), the REST views alone (SpecRest), the connections
\* of one device alone (SpecConnections) and the reading ingest over all
\* bounded payloads (SpecIngest).
Component(t, s) == [component_type |-> t, score |-> s, is_correct |-> "true"]

ValidPayload == <<Component("neck", 2), Component("torso", 1), Component("shoulders", 2)>>
TwoTypesPayload == <<Component("neck", 2), Component("torso", 1)>>
Payloads == {ValidPayload, TwoTypesPayload}

\* a claimed device with default settings
ClaimedDevice ==
    [api_key |-> "k1", is_active |-> TRUE, sensitivity |-> DefaultIntensity,
     vibration_intensity |-> DefaultIntensity, audio_intensity |-> DefaultIntensity,
     last_seen |-> NULL]

\* The store holds one claimed device and the Session rows `rows`; the
\* connections C are not yet accepted and the REST threads R are idle.
InitWith(C, R, rows) ==
    /\ clock = 0
    /\ device = [d \in {"d1"} |-> ClaimedDevice]
    /\ sessions = rows
    /\ readings = <<>>
    /\ groups = [g \in IdTexts |-> {}]
    /\ mailbox = [c \in C |-> <<>>]
    /\ conn = [c \in C |-> NewConsumer]
    /\ out = [c \in C |-> <<>>]
    /\ req = [r \in R |-> IdleRequest]
    /\ stopped_by = [i \in DOMAIN rows |-> {}]

ActiveSession(d) == [device |-> d, start_time |-> 0, end_time |-> NULL, is_idle |-> FALSE]

ConsumerNext ==
    \/ \E c \in DOMAIN conn, device_id \in IdTexts, api_key \in ApiKeys : connect(c, device_id, api_key)
    \/ \E c \in DOMAIN conn : disconnect(c)
    \/ \E c \in DOMAIN conn : disconnect_stop(c)
    \/ \E c \in DOMAIN conn : receive_heartbeat(c)
    \/ \E c \in DOMAIN conn : heartbeat_stop(c)
    \/ \E c \in DOMAIN conn : receive_settings_request(c)
    \/ \E c \in DOMAIN conn, data \in Payloads : receive_posture_data(c, data)
    \/ \E c \in DOMAIN conn : posture_save(c)
    \/ \E c \in DOMAIN conn, message_type \in UnhandledTypes : receive_unhandled_type(c, message_type)

RestNext ==
    \/ \E r \in DOMAIN req, d \in DOMAIN device : session_start_put(r, d)
    \/ \E r \in DOMAIN req : session_start_create(r)
    \/ \E r \in DOMAIN req, d \in DOMAIN device : session_stop_put(r, d)
    \/ \E r \in DOMAIN req : session_stop_save(r)
    \/ \E r \in DOMAIN req, d \in DOMAIN device, data \in Payloads :
          posture_create(r, str(d), device[d].api_key, data)
    \/ \E r \in DOMAIN req : posture_perform_save(r)

\* One connection and one REST thread.
Init == InitWith({"c1"}, {"r1"}, <<>>)

Next ==
    \/ Tick
    \/ ConsumerNext
    \/ \E c \in DOMAIN conn : device_settings_update(c)
    \/ RestNext

Spec == Init /\ [][Next]_vars

\* Two REST threads, no connection.
InitRest == InitWith({}, {"r1", "r2"}, <<>>)

NextRest == Tick \/ RestNext

SpecRest == InitRest /\ [][NextRest]_vars

\* Two connections of a device whose session was started before, no REST thread.
InitConnections == InitWith({"c1", "c2"}, {}, <<ActiveSession("d1")>>)

NextConnections == Tick \/ ConsumerNext

SpecConnections == InitConnections /\ [][NextConnections]_vars

\* The same, where a handler that has begun goes on to its end: the event
\* loop runs every coroutine that is ready. When a device sends a frame or
\* closes its connection is up to the device.
HandlerGoesOn ==
    \E c \in DOMAIN conn : disconnect_stop(c) \/ heartbeat_stop(c) \/ posture_save(c)

SpecConnectionsFair == SpecConnections /\ WF_vars(HandlerGoesOn)

\* A posture_data frame of any bounded content, taken at the point where
\* process_posture_data_sync has found the active session.
IngestComponents == {Component(t, s) : t \in COMPONENT_TYPES, s \in -1..MaxScore}

UnknownTypePayload ==
    <<Component("neck", 2), Component("torso", 1), Component("shoulders", 2), Component("head", 1)>>

NoIsCorrectPayload ==
    <<Component("neck", 2), Component("torso", 1),
      [component_type |-> "shoulders", score |-> 2, is_correct |-> "missing"]>>

IngestPayloads ==
    UNION {[1..n -> IngestComponents] : n \in 0..MaxLen}
    \cup {UnknownTypePayload, NoIsCorrectPayload}

InitIngest ==
    /\ clock = 0
    /\ device = [d \in {"d1"} |-> [ClaimedDevice EXCEPT !.last_seen = 0]]
    /\ sessions = <<ActiveSession("d1")>>
    /\ readings = <<>>
    /\ groups = [g \in IdTexts |-> IF g = "d1" THEN {"c1"} ELSE {}]
    /\ mailbox = [c \in {"c1"} |-> <<>>]
    /\ \E data \in IngestPayloads :
          conn = [c \in {"c1"} |->
                    [NewConsumer EXCEPT !.state = "posture_save", !.device_id = "d1",
                                        !.api_key = "k1", !.device = DeviceObject("d1"),
                                        !.group_name = "d1", !.accepted = TRUE,
                                        !.data = data]]
    /\ out = [c \in {"c1"} |-> <<SettingsFrame(DeviceObject("d1"), TRUE)>>]
    /\ req = <<>>
    /\ stopped_by = <<{}>>

NextIngest == \E c \in DOMAIN conn : posture_save(c)

SpecIngest == InitIngest /\ [][NextIngest]_vars

\* A registered device nobody has claimed yet (is_active is False by
\* default), one connection and one REST thread that can claim the device.
UnclaimedDevice == [ClaimedDevice EXCEPT !.is_active = FALSE]

InitUnclaimed ==
    /\ clock = 0
    /\ device = [d \in {"d1"} |-> UnclaimedDevice]
    /\ sessions = <<>>
    /\ readings = <<>>
    /\ groups = [g \in IdTexts |-> {}]
    /\ mailbox = [c \in {"c1"} |-> <<>>]
    /\ conn = [c \in {"c1"} |-> NewConsumer]
    /\ out = [c \in {"c1"} |-> <<>>]
    /\ req = [r \in {"r1"} |-> IdleRequest]
    /\ stopped_by = <<>>

NextUnclaimed ==
    \/ Tick
    \/ \E c \in DOMAIN conn, device_id \in IdTexts, api_key \in ApiKeys : connect(c, device_id, api_key)
    \/ \E c \in DOMAIN conn : disconnect(c)
    \/ \E c \in DOMAIN conn : receive_settings_request(c)
    \/ \E c \in DOMAIN conn : device_settings_update(c)
    \/ \E r \in DOMAIN req, d \in DOMAIN device : claim_device(r, d)

SpecUnclaimed == InitUnclaimed /\ [][NextUnclaimed]_vars

\* Two connections of a device whose session was started before, and one
\* REST thread that updates the device's settings.
InitBus == InitWith({"c1", "c2"}, {"r1"}, <<ActiveSession("d1")>>)

NextBus ==
    \/ \E c \in DOMAIN conn, device_id \in IdTexts, api_key \in ApiKeys : connect(c, device_id, api_key)
    \/ \E c \in DOMAIN conn : disconnect(c)
    \/ \E c \in DOMAIN conn : disconnect_stop(c)
    \/ \E c \in DOMAIN conn : device_settings_update(c)
    \/ \E r \in DOMAIN req, d \in DOMAIN device, v \in SettingValues : device_update(r, d, v)

SpecBus == InitBus /\ [][NextBus]_vars

\* One connection and two REST threads that start and stop sessions.
InitTeardown == InitWith({"c1"}, {"r1", "r2"}, <<>>)

NextTeardown ==
    \/ Tick
    \/ \E c \in DOMAIN conn, device_id \in IdTexts, api_key \in ApiKeys : connect(c, device_id, api_key)
    \/ \E c \in DOMAIN conn : disconnect(c)
    \/ \E c \in DOMAIN conn : disconnect_stop(c)
    \/ \E c \in DOMAIN conn : device_settings_update(c)
    \/ \E r \in DOMAIN req, d \in DOMAIN device : session_start_put(r, d)
    \/ \E r \in DOMAIN req : session_start_create(r)
    \/ \E r \in DOMAIN req, d \in DOMAIN device : session_stop_put(r, d)
    \/ \E r \in DOMAIN req : session_stop_save(r)

SpecTeardown == InitTeardown /\ [][NextTeardown]_vars

\* Two connections of a device whose session was started before, and a store
\* that can fail while a connection is torn down.
NextStorage ==
    \/ Tick
    \/ \E c \in DOMAIN conn, device_id \in IdTexts, api_key \in ApiKeys : connect(c, device_id, api_key)
    \/ \E c \in DOMAIN conn : disconnect(c)
    \/ \E c \in DOMAIN conn : disconnect_stop(c)
    \/ \E c \in DOMAIN conn : disconnect_error(c)
    \/ \E c \in DOMAIN conn : receive_settings_request(c)

SpecStorage == InitConnections /\ [][NextStorage]_vars

\* One connection that handles the events of the bus and one REST thread that
\* changes the device and its sessions, with a bus that can fail.
InitPublish == InitWith({"c1"}, {"r1"}, <<>>)

PublishNext ==
    \/ \E r \in DOMAIN req, d \in DOMAIN device, v \in SettingValues : device_update(r, d, v)
    \/ \E r \in DOMAIN req, d \in DOMAIN device : claim_device(r, d)
    \/ \E r \in DOMAIN req, d \in DOMAIN device : release_device(r, d)
    \/ \E r \in DOMAIN req, d \in DOMAIN device : session_start_put(r, d)
    \/ \E r \in DOMAIN req : session_start_create(r)
    \/ \E r \in DOMAIN req, d \in DOMAIN device : session_stop_put(r, d)
    \/ \E r \in DOMAIN req : session_stop_save(r)

PublishErrorNext ==
    \/ \E r \in DOMAIN req, d \in DOMAIN device, v \in SettingValues :
          device_update_publish_error(r, d, v)
    \/ \E r \in DOMAIN req, d \in DOMAIN device : claim_device_publish_error(r, d)
    \/ \E r \in DOMAIN req, d \in DOMAIN device : release_device_publish_error(r, d)
    \/ \E r \in DOMAIN req : session_start_create_publish_error(r)
    \/ \E r \in DOMAIN req : session_stop_save_publish_error(r)

NextPublish ==
    \/ \E c \in DOMAIN conn, device_id \in IdTexts, api_key \in ApiKeys : connect(c, device_id, api_key)
    \/ \E c \in DOMAIN conn : device_settings_update(c)
    \/ PublishNext
    \/ PublishErrorNext

SpecPublish == InitPublish /\ [][NextPublish]_vars

\* The same, with a store that can fail while an event of the bus is handled
\* or a stopped session is scored.
NextFaults ==
    \/ NextPublish
    \/ \E c \in DOMAIN conn : device_settings_update_refresh_error(c)
    \/ \E c \in DOMAIN conn : device_settings_update_error(c)
    \/ \E r \in DOMAIN req : session_stop_rank_error(r)

SpecFaults == InitPublish /\ [][NextFaults]_vars

\* Two connections and one REST thread that end sessions on every path: the
\* close of a connection, the heartbeat, the REST stop.
InitStops == InitWith({"c1", "c2"}, {"r1"}, <<ActiveSession("d1")>>)

NextStops ==
    \/ \E c \in DOMAIN conn : connect(c, "d1", "k1")
    \/ \E c \in DOMAIN conn : disconnect(c)
    \/ \E c \in DOMAIN conn : disconnect_stop(c)
    \/ \E c \in DOMAIN conn : receive_heartbeat(c)
    \/ \E c \in DOMAIN conn : heartbeat_stop(c)
    \/ \E c \in DOMAIN conn : receive_posture_data(c, ValidPayload)
    \/ \E c \in DOMAIN conn : posture_save(c)
    \/ \E r \in DOMAIN req, d \in DOMAIN device : session_start_put(r, d)
    \/ \E r \in DOMAIN req : session_start_create(r)
    \/ \E r \in DOMAIN req, d \in DOMAIN device : session_stop_put(r, d)
    \/ \E r \in DOMAIN req : session_stop_save(r)

SpecStops == InitStops /\ [][NextStops]_vars

\* One connection that asks for its settings and handles the events of the
\* bus, and one REST thread that updates the device's settings.
InitSettings == InitWith({"c1"}, {"r1"}, <<>>)

NextSettings ==
    \/ Tick
    \/ \E c \in DOMAIN conn, device_id \in IdTexts, api_key \in ApiKeys : connect(c, device_id, api_key)
    \/ \E c \in DOMAIN conn : receive_settings_request(c)
    \/ \E c \in DOMAIN conn : device_settings_update(c)
    \/ \E r \in DOMAIN req, d \in DOMAIN device, v \in SettingValues : device_update(r, d, v)

SpecSettings == InitSettings /\ [][NextSettings]_vars

\* Two devices, d1 and a second one whose id is d9 and whose key is k9, two
\* connections, and one REST thread that updates the settings of either
\* device.
SecondDevice == [ClaimedDevice EXCEPT !.api_key = "k9"]

InitDevices ==
    /\ clock = 0
    /\ device = [d \in {"d1", "d9"} |-> IF d = "d1" THEN ClaimedDevice ELSE SecondDevice]
    /\ sessions = <<>>
    /\ readings = <<>>
    /\ groups = [g \in IdTexts |-> {}]
    /\ mailbox = [c \in {"c1", "c2"} |-> <<>>]
    /\ conn = [c \in {"c1", "c2"} |-> NewConsumer]
    /\ out = [c \in {"c1", "c2"} |-> <<>>]
    /\ req = [r \in {"r1"} |-> IdleRequest]
    /\ stopped_by = <<>>

NextDevices ==
    \/ \E c \in DOMAIN conn, device_id \in IdTexts, api_key \in {"k1", "k9"} :
          connect(c, device_id, api_key)
    \/ \E c \in DOMAIN conn : device_settings_update(c)
    \/ \E r \in DOMAIN req, d \in DOMAIN device, v \in SettingValues : device_update(r, d, v)

SpecDevices == InitDevices /\ [][NextDevices]_vars

\* Two connections of one device that open and close, and two REST threads
\* that start its sessions.
InitShared == InitWith({"c1", "c2"}, {"r1", "r2"}, <<>>)

NextShared ==
    \/ \E c \in DOMAIN conn : connect(c, "d1", "k1")
    \/ \E c \in DOMAIN conn : disconnect(c)
    \/ \E c \in DOMAIN conn : disconnect_stop(c)
    \/ \E r \in DOMAIN req, d \in DOMAIN device : session_start_put(r, d)
    \/ \E r \in DOMAIN req : session_start_create(r)

SpecShared == InitShared /\ [][NextShared]_vars

\* One connection of a device whose session was started before, frames of
\* every kind, and a store that can fail while a frame is handled. A single
\* connection has no room left for a heartbeat once a reading is stored, so
\* the heartbeat stops no session here.
InitFrames == InitWith({"c1"}, {}, <<ActiveSession("d1")>>)

NextFrames ==
    \/ Tick
    \/ \E c \in DOMAIN conn, device_id \in IdTexts, api_key \in ApiKeys : connect(c, device_id, api_key)
    \/ \E c \in DOMAIN conn : disconnect(c)
    \/ \E c \in DOMAIN conn : disconnect_stop(c)
    \/ \E c \in DOMAIN conn : receive_heartbeat(c)
    \/ \E c \in DOMAIN conn : receive_settings_request(c)
    \/ \E c \in DOMAIN conn, data \in Payloads : receive_posture_data(c, data)
    \/ \E c \in DOMAIN conn : posture_save(c)
    \/ \E c \in DOMAIN conn, message_type \in UnhandledTypes : receive_unhandled_type(c, message_type)
    \/ \E c \in DOMAIN conn : receive_invalid_json(c)
    \/ \E c \in DOMAIN conn : receive_non_object(c)
    \/ \E c \in DOMAIN conn : receive_bytes(c)
    \/ \E c \in DOMAIN conn : receive_settings_request_error(c)

SpecFrames == InitFrames /\ [][NextFrames]_vars

\* ================================================================ claims
Last(seq) == seq[Len(seq)]

\* seq2 is seq1 with exactly one element added at the end
OneAppended(seq1, seq2) ==
    /\ Len(seq2) = Len(seq1) + 1
    /\ SubSeq(seq2, 1, Len(seq1)) = seq1

\* C1: for every device, in every reachable state, at most one Session has
\* end_time = null, also under two concurrent REST session-start requests.
C1_AtMostOneActiveSession ==
    \A d \in DOMAIN device : Cardinality(ActiveSessions(d)) <= 1

\* C2: of the stop operations that run against one active session, exactly one
\* reports that it stopped the session; the others observe no active session.
C2_OneStopReports ==
    \A s \in DOMAIN stopped_by : Cardinality(stopped_by[s]) <= 1

\* C3: a Session's end_time is written at most once: once it is non-null it
\* never changes again (and so the session never becomes active again).
C3_EndTimeWrittenOnce ==
    [][\A s \in DOMAIN sessions :
          sessions[s].end_time # NULL => sessions'[s].end_time = sessions[s].end_time]_vars

\* C4: no Reading is persisted for a device at an instant when that device has
\* no active session.
C4_ReadingOnlyWhileActive ==
    [][Len(readings') > Len(readings) => has_active_session(Last(readings').device)]_vars

\* the frame a handler step added to c's frames is a posture_data_response
\* of the given status
PostureResponseSent(c, status) ==
    /\ OneAppended(out[c], out'[c])
    /\ Last(out'[c]).type = "posture_data_response"
    /\ Last(out'[c]).status = status

\* the connection is open: accepted, subscribed, handling frames
Open(c) ==
    /\ conn[c].state \in {"active", "posture_save", "heartbeat_stop"}
    /\ conn[c].accepted
    /\ c \in groups[conn[c].group_name]

\* C5: if a posture_data frame is handled while the device has no active
\* session, the connection sends a posture_data_response with status "error",
\* the persisted Readings and Components are unchanged, and the connection
\* stays open.
C5_NoSessionRejection ==
    [][\A c \in DOMAIN conn, data \in Payloads :
          (receive_posture_data(c, data) /\ ~has_active_session(conn[c].device.id))
          => /\ PostureResponseSent(c, "error")
             /\ readings' = readings
             /\ conn'[c].state = "active"
             /\ Open(c)']_vars

\* a connection has just been answered that the device has no active session
C5_Witness ==
    \E c \in DOMAIN conn :
        /\ conn[c].state = "active"
        /\ out[c] # <<>>
        /\ Last(out[c]).type = "posture_data_response"
        /\ Last(out[c]).status = "error"
        /\ Last(out[c]).error = "Device must have an active session to submit posture data"
        /\ ~has_active_session(conn[c].device.id)
        /\ readings = <<>>

\* the components are one each of neck, torso and shoulders
OneOfEachType(components) ==
    /\ Len(components) = Cardinality(COMPONENT_TYPES)
    /\ \A t \in COMPONENT_TYPES :
          Cardinality({i \in DOMAIN components : components[i].component_type = t}) = 1

\* the score submitted for component type t
SubmittedScore(components, t) ==
    components[CHOOSE i \in DOMAIN components : components[i].component_type = t].score

\* the step persisted exactly one Reading, of device d, with the three
\* submitted component scores
PersistedOne(d, components) ==
    /\ OneAppended(readings, readings')
    /\ Last(readings').device = d
    /\ OneOfEachType(components)
    /\ Len(Last(readings').components) = Len(components)
    /\ \A t \in COMPONENT_TYPES :
          SubmittedScore(Last(readings').components, t) = SubmittedScore(components, t)

\* C6: for every accepted posture submission the persisted Reading's
\* overall_score is floor((neck + torso + shoulders) / 3) of exactly the three
\* submitted scores.
C6_OverallScoreIsFloorOfMean ==
    [][\A c \in DOMAIN conn :
          (conn[c].state = "posture_save" /\ Len(readings') > Len(readings))
          => /\ PersistedOne(conn[c].device.id, conn[c].data)
             /\ Last(readings').overall_score =
                  (SubmittedScore(conn[c].data, "neck")
                   + SubmittedScore(conn[c].data, "torso")
                   + SubmittedScore(conn[c].data, "shoulders")) \div 3]_vars

\* a Reading whose three scores do not divide by three is persisted
C6_Witness ==
    \E i \in DOMAIN readings :
        /\ SumScores(readings[i].components) % 3 # 0
        /\ readings[i].overall_score > 0

\* C7: a submission whose component types are not exactly one each of neck,
\* torso and shoulders (missing, duplicated, empty), or in which a score is
\* negative, is rejected, and neither a Reading nor a Component is persisted.
C7_InvalidComponentsRejected ==
    [][\A c \in DOMAIN conn :
          (/\ conn[c].state = "posture_save"
           /\ conn'[c].state # "posture_save"
           /\ \/ ~OneOfEachType(conn[c].data)
              \/ \E i \in DOMAIN conn[c].data : conn[c].data[i].score < 0)
          => /\ PostureResponseSent(c, "error")
             /\ readings' = readings]_vars

\* a submission with a duplicated type has been rejected
C7_Witness ==
    \E c \in DOMAIN conn :
        /\ conn[c].state = "active"
        /\ Len(out[c]) > 1
        /\ Last(out[c]).type = "posture_data_response"
        /\ Last(out[c]).status = "error"
        /\ Last(out[c]).error = "Duplicate component types are not allowed"
        /\ readings = <<>>

BadCredentials(device_id, api_key) ==
    \/ UUID(device_id) = "ValueError"
    \/ UUID(device_id) \notin DOMAIN device
    \/ device[UUID(device_id)].api_key # api_key

\* c is a connection whose handshake was refused
Refused(c) == conn[c].state \in {"rejected", "closed"} /\ conn[c].device = NoDevice

\* C9: a connection attempt that fails authentication (unknown id, malformed
\* id, wrong key) is closed without ever being accepted: no frame is sent on
\* it, it is never subscribed, and last_seen and all other stored state are
\* unchanged.
C9_FailedAuthenticationLeavesNoTrace ==
    [][\A c \in DOMAIN conn :
          \* the handshake with bad credentials is refused
          /\ (/\ conn[c].state = "connecting"
              /\ conn'[c].state # "connecting"
              /\ BadCredentials(conn'[c].device_id, conn'[c].api_key))
             => /\ Refused(c)'
                /\ conn'[c].close_code # 0
                /\ UNCHANGED <<device, sessions, readings, groups, mailbox, out>>
          \* a refused connection is not accepted, has no frame and no
          \* subscription, and its teardown changes nothing either
          /\ Refused(c)
             => /\ ~conn[c].accepted
                /\ out[c] = <<>>
                /\ \A g \in DOMAIN groups : c \notin groups[g]
                /\ conn'[c] # conn[c]
                   => /\ Refused(c)'
                      /\ UNCHANGED <<device, sessions, readings, groups, mailbox, out>>]_vars

\* a handshake with the right id and a wrong key was refused and torn down
\* while the device had a session and another connection was open
C9_Witness ==
    \E c \in DOMAIN conn :
        /\ conn[c].state = "closed"
        /\ conn[c].device_id = "d1"
        /\ conn[c].api_key = "bad"
        /\ conn[c].close_code = CloseCodeAuthFailed
        /\ \E o \in DOMAIN conn : conn[o].state = "active"
        /\ has_active_session("d1")

\* C10: the close code used when the handshake id is malformed differs from
\* the close code used when the id is well-formed but the registry rejects
\* the id/key pair.
C10_DistinctCloseCodes ==
    \A c1, c2 \in DOMAIN conn :
        (/\ Refused(c1)
         /\ Refused(c2)
         /\ UUID(conn[c1].device_id) = "ValueError"
         /\ UUID(conn[c2].device_id) # "ValueError")
        => conn[c1].close_code # conn[c2].close_code

\* C11: a connection attempt presenting the correct id and key of a device
\* that is inactive (is_active = false: unclaimed or released) is refused with
\* the unauthorized close code and never reaches the Active state.
C11_InactiveDeviceRefused ==
    [][\A c \in DOMAIN conn :
          (/\ conn[c].state = "connecting"
           /\ conn'[c].state # "connecting"
           /\ ~BadCredentials(conn'[c].device_id, conn'[c].api_key)
           /\ ~device[UUID(conn'[c].device_id)].is_active)
          => /\ Refused(c)'
             /\ conn'[c].close_code = CloseCodeAuthFailed
             /\ ~conn'[c].accepted]_vars

\* the fields a settings frame carries according to the specification
SettingsFields ==
    {"sensitivity", "vibration_intensity", "audio_intensity", "has_active_session", "is_idle"}

\* C12: on every successful connect the connection is subscribed to the
\* device's channel, accepted, and pushed the initial settings snapshot, in
\* that order; so the first outbound frame of any accepted connection is a
\* settings frame, and it carries sensitivity, vibration_intensity,
\* audio_intensity, has_active_session and is_idle.
C12_FirstFrameIsFullSettings ==
    \A c \in DOMAIN conn :
        conn[c].accepted
        => /\ conn[c].group_name # ""
           /\ out[c] # <<>>
           /\ out[c][1].type = "settings"
           /\ SettingsFields \subseteq DOMAIN out[c][1].data

\* C13: with two connections open for the same device, each settings-changed
\* publish for that device results in each of the two connections sending
\* exactly one settings frame carrying the new values, in any relative order
\* between the two connections.
C13_EveryConnectionToldOfSettingsChange ==
    [][\A c \in DOMAIN conn :
          \* the publish reaches every open connection of the device whose
          \* channel has room
          /\ \A r \in DOMAIN req, d \in DOMAIN device :
                (/\ \E v \in SettingValues : device_update(r, d, v)
                 /\ Open(c)
                 /\ conn[c].device.id = d
                 /\ \E o \in DOMAIN conn \ {c} : Open(o) /\ conn[o].device.id = d
                 /\ Len(mailbox[c]) < MaxMailbox)
                => /\ OneAppended(mailbox[c], mailbox'[c])
                   /\ Last(mailbox'[c]).type = "device_settings_update"
          \* the connection handles each event it was sent by one settings
          \* frame with the values stored now
          /\ device_settings_update(c)
             => /\ OneAppended(out[c], out'[c])
                /\ Last(out'[c]).type = "settings"
                /\ Last(out'[c]).data.sensitivity = device[conn[c].device.id].sensitivity]_vars

\* C14: after an authenticated connection with an active session is closed,
\* the device's session is ended and the connection's subscription is
\* removed, and no event published for that device afterwards is delivered to
\* the closed connection.
C14_ClosedConnectionEndsSessionAndSubscription ==
    [][\A c \in DOMAIN conn :
          \* the step that closes an authenticated connection leaves no
          \* session of its device active and no subscription of the connection
          /\ (/\ conn[c].device # NoDevice
              /\ conn[c].state # "closed"
              /\ conn'[c].state = "closed")
             => /\ \A s \in ActiveSessions(conn[c].device.id) : sessions'[s].end_time # NULL
                /\ \A g \in DOMAIN groups : c \notin groups'[g]
          \* nothing is delivered to a closed connection or sent on it
          /\ conn[c].state = "closed"
             => /\ mailbox'[c] = mailbox[c]
                /\ out'[c] = out[c]
                /\ \A g \in DOMAIN groups : c \notin groups'[g]]_vars

\* c has no subscription
Unsubscribed(c) == \A g \in DOMAIN groups : c \notin groups[g]

ReadingNewerThanThreshold(d) ==
    /\ last_reading_timestamp(d) # NULL
    /\ last_reading_timestamp(d) * TickSeconds > now * TickSeconds - InactivitySeconds

\* C17: a heartbeat ends the device's active session only if the device's
\* most recent Reading is older than the inactivity threshold; a session
\* whose most recent Reading is newer than the threshold is never ended by a
\* heartbeat.
C17_HeartbeatEndsOnlyStaleSession ==
    [][\A c \in DOMAIN conn :
          (receive_heartbeat(c) /\ conn'[c].state = "heartbeat_stop")
          => /\ last_reading_timestamp(conn[c].device.id) # NULL
             /\ ~ReadingNewerThanThreshold(conn[c].device.id)]_vars

\* C18: given an active, non-idle session, a heartbeat received after the
\* idle threshold has elapsed with no intervening Reading sets is_idle to true
\* and pushes one session_status frame; later heartbeats while the session
\* stays idle push no further session_status frame until idle is cleared.
\* (The code has one threshold, the inactivity threshold, which is the harder
\* of the two: once it has elapsed the idle threshold has elapsed too.)
C18_StaleHeartbeatMarksIdleOnce ==
    [][\A c \in DOMAIN conn :
          LET d == conn[c].device.id
              s == first_active_session(d)
          IN /\ (/\ receive_heartbeat(c)
                 /\ s # 0
                 /\ ~sessions[s].is_idle
                 /\ last_reading_timestamp(d) # NULL
                 /\ ~ReadingNewerThanThreshold(d))
                => /\ sessions'[s].is_idle
                   /\ OneAppended(out[c], out'[c])
                   /\ Last(out'[c]).type = "session_status"
             /\ (receive_heartbeat(c) /\ s # 0 /\ sessions[s].is_idle)
                => out'[c] = out[c]]_vars

\* device d has an active session that is idle
has_idle_session(d) == \E s \in ActiveSessions(d) : sessions[s].is_idle

\* C19: every exit_idle_mode frame handled on an open connection produces
\* exactly one exit_idle_mode_response frame: status success with is_idle
\* cleared when the device has an active idle session, status error with
\* session state unchanged otherwise.
C19_ExitIdleModeAnswered ==
    [][\A c \in DOMAIN conn :
          receive_unhandled_type(c, "exit_idle_mode")
          => /\ OneAppended(out[c], out'[c])
             /\ Last(out'[c]).type = "exit_idle_mode_response"
             /\ IF has_idle_session(conn[c].device.id)
                THEN /\ Last(out'[c]).status = "success"
                     /\ ~has_idle_session(conn[c].device.id)'
                ELSE /\ Last(out'[c]).status = "error"
                     /\ sessions' = sessions]_vars

\* C20: a heartbeat frame that does not change the device's session state
\* produces no outbound frame at all; a heartbeat that does change session
\* state produces a session_status push reporting the new state.
C20_HeartbeatFramesFollowSessionChange ==
    [][\A c \in DOMAIN conn :
          \* up to its decision the handler sends nothing
          /\ receive_heartbeat(c) => out'[c] = out[c] /\ sessions' = sessions
          \* the rest of a handler that decided to stop the session
          /\ heartbeat_stop(c)
             => IF sessions[conn[c].session].end_time = NULL
                THEN \* it ends the session and reports that
                     /\ sessions'[conn[c].session].end_time # NULL
                     /\ Len(out'[c]) > Len(out[c])
                     /\ SubSeq(out'[c], 1, Len(out[c])) = out[c]
                     /\ Last(out'[c]).type = "session_status"
                     /\ Last(out'[c]).has_active_session = has_active_session(conn[c].device.id)'
                ELSE \* the session was ended already: nothing to report
                     out'[c] = out[c]]_vars

\* a step in which c ends the handling of a frame that json.loads parsed
ParsedFrameHandled(c) ==
    \/ receive_heartbeat(c)
    \/ receive_settings_request(c)
    \/ \E data \in Payloads : receive_posture_data(c, data) /\ conn'[c].state = "active"
    \/ posture_save(c)
    \/ \E message_type \in UnhandledTypes : receive_unhandled_type(c, message_type)
    \/ receive_non_object(c)

\* C21: handling any successfully parsed inbound frame, whatever its type
\* (heartbeat, settings_request, posture_data, exit_idle_mode, unknown type,
\* or a JSON value that is not an object), updates the device's last_seen; a
\* failure of that update is absorbed and never changes the frame's response
\* or closes the connection.
C21_ParsedFrameTouchesLastSeen ==
    [][\A c \in DOMAIN conn :
          ParsedFrameHandled(c)
          => /\ device'[conn[c].device.id].last_seen = now
             /\ conn'[c].state # "closed"]_vars

\* C22: a frame that is not valid JSON produces exactly one error frame with
\* error "Invalid JSON format", leaves sessions, readings, settings and
\* subscriptions unchanged, and leaves the connection open.
C22_InvalidJsonAnswered ==
    [][\A c \in DOMAIN conn :
          receive_invalid_json(c)
          => /\ OneAppended(out[c], out'[c])
             /\ Last(out'[c]) = ErrorFrame("Invalid JSON format")
             /\ UNCHANGED <<sessions, readings, device, groups>>
             /\ conn'[c].state = "active"
             /\ Open(c)']_vars

\* a connection was told of a frame that is not JSON and is still open, and
\* its device's session is still active
C22_Witness ==
    \E c \in DOMAIN conn :
        /\ Open(c)
        /\ Len(out[c]) > 1
        /\ Last(out[c]) = ErrorFrame("Invalid JSON format")
        /\ has_active_session(conn[c].device.id)

\* a step in which c handles an inbound frame, or a part of one
FrameStep(c) ==
    \/ ParsedFrameHandled(c)
    \/ \E data \in Payloads : receive_posture_data(c, data)
    \/ heartbeat_stop(c)
    \/ receive_settings_request_error(c)
    \/ receive_invalid_json(c)
    \/ receive_bytes(c)

\* C23: no inbound frame, whatever its content, moves an Active connection to
\* Closed: after handling any frame (including one whose handling raises an
\* error) the connection is still Active and still subscribed; only a
\* transport close ends it.
C23_NoFrameClosesConnection ==
    [][\A c \in DOMAIN conn : FrameStep(c) => Open(c)']_vars

\* the event was published by a session start or a session stop
PublishedBySessionView(event) == "has_active_session" \in DOMAIN event.settings

\* C24: a REST session start (resp. stop) for a device with an open connection
\* results in that connection being sent a session_status frame with action
\* start (resp. stop) and has_active_session true (resp. false): the frame the
\* connection is sent for the event of a start or stop is that frame.
C24_SessionChangeSendsSessionStatus ==
    [][\A c \in DOMAIN conn :
          /\ mailbox[c] # <<>>
          /\ PublishedBySessionView(Head(mailbox[c]))
          /\ Head(mailbox[c]).device_id = conn[c].device_id
          /\ device_settings_update(c) \/ session_status_event(c)
          => LET active == Head(mailbox[c]).settings.has_active_session
             IN Last(out'[c]) =
                   SessionStatusFrame(IF active THEN "start" ELSE "stop", active)]_vars

\* c handles a settings-changed event of the bus that is for its device
SettingsEventHandled(c) ==
    /\ mailbox[c] # <<>>
    /\ Head(mailbox[c]).device_id = conn[c].device_id
    /\ \/ device_settings_update(c)
       \/ device_settings_update_refresh_error(c)
       \/ device_settings_update_error(c)

\* C25: the settings frame pushed in response to a settings-changed event of
\* the bus carries the settings and the has_active_session that are persisted
\* when the event is handled, never the values of the event payload nor
\* cached values.
C25_EventFrameCarriesPersistedSettings ==
    [][\A c \in DOMAIN conn :
          SettingsEventHandled(c)
          => LET d == conn[c].device.id
             IN /\ OneAppended(out[c], out'[c])
                /\ Last(out'[c]).type = "settings"
                /\ Last(out'[c]).data.sensitivity = device[d].sensitivity
                /\ Last(out'[c]).data.vibration_intensity = device[d].vibration_intensity
                /\ Last(out'[c]).data.audio_intensity = device[d].audio_intensity
                /\ Last(out'[c]).data.has_active_session =
                      (\E i \in DOMAIN sessions :
                          sessions[i].device = d /\ sessions[i].end_time = NULL)]_vars

\* C26: if publishing to the bus fails, the REST operation that triggered it
\* (settings update, claim, release, session start, session stop) still
\* leaves its mutation committed and still returns its success response.
C26_PublishFailureKeepsMutationAndSuccess ==
    [][\A r \in DOMAIN req :
          /\ \A d \in DOMAIN device, v \in SettingValues :
                device_update_publish_error(r, d, v)
                => device'[d].sensitivity = v /\ req'[r].response = "Updated"
          /\ \A d \in DOMAIN device :
                claim_device_publish_error(r, d)
                => device'[d].is_active /\ req'[r].response = "Device claimed"
          /\ \A d \in DOMAIN device :
                release_device_publish_error(r, d)
                => /\ ~device'[d].is_active
                   /\ \A i \in DOMAIN sessions' : sessions'[i].device # d
                   /\ req'[r].response = "Device released successfully"
          /\ session_start_create_publish_error(r)
                => /\ Len(sessions') = Len(sessions) + 1
                   /\ Last(sessions').device = req[r].device
                   /\ Last(sessions').end_time = NULL
                   /\ req'[r].response = "Session started"
          /\ session_stop_save_publish_error(r)
                => /\ sessions'[req[r].session].end_time # NULL
                   /\ req'[r].response = "Session stopped"]_vars

\* a session was started and reported as started while the subscribed
\* connection of its device, open since before, got no event of it
C26_Witness ==
    \E c \in DOMAIN conn, r \in DOMAIN req :
        /\ Open(c)
        /\ conn[c].group_name = str(conn[c].device.id)
        /\ has_active_session(conn[c].device.id)
        /\ req[r].response = "Session started"
        /\ mailbox[c] = <<>>
        /\ Len(out[c]) = 1
        /\ ~out[c][1].data.has_active_session

\* the step of REST thread r commits a change of device d that its
\* connections can see, the bus being available
CommitsVisibleChange(r, d) ==
    \/ \E v \in SettingValues : device_update(r, d, v)
    \/ claim_device(r, d) /\ device'[d].is_active # device[d].is_active
    \/ release_device(r, d) /\ device'[d].is_active # device[d].is_active
    \/ req[r].device = d /\ session_start_create(r)
    \/ req[r].device = d /\ session_stop_save(r)
    \/ req[r].device = d /\ session_stop_rank_error(r)

\* the step publishes one event on the channel of d, built from the committed row
OnePublishAfterCommit(d) ==
    \E settings \in {[sensitivity |-> device'[d].sensitivity]}
                     \cup {[sensitivity |-> device'[d].sensitivity, has_active_session |-> b] :
                               b \in BOOLEAN} :
        mailbox' = group_send(d, SettingsEvent(d, settings))

\* C27: every REST operation that commits a change visible to connected
\* devices (settings update or partial update, claim, release, session start
\* that creates a session, session stop that ends a session) is followed by
\* exactly one publish on that device's channel, after the commit.
C27_CommitFollowedByOnePublish ==
    [][\A r \in DOMAIN req, d \in DOMAIN device :
          CommitsVisibleChange(r, d) => OnePublishAfterCommit(d)]_vars

\* a step of the session start that REST thread r runs for device d
SessionStartStep(r, d) ==
    \/ session_start_put(r, d)
    \/ req[r].device = d /\ session_start_create(r)

\* C28: a session start while a session is already active creates no Session,
\* leaves the existing session's start_time and end_time unchanged and reports
\* the already-active outcome instead of an error; a start with no active
\* session creates exactly one Session, with end_time = null.
C28_StartWhileActiveCreatesNothing ==
    [][\A r \in DOMAIN req, d \in DOMAIN device :
          /\ SessionStartStep(r, d) /\ has_active_session(d)
             => /\ sessions' = sessions
                /\ req'[r].response = "Session already active"
          /\ req[r].device = d /\ session_start_create(r) /\ ~has_active_session(d)
             => /\ OneAppended(sessions, sessions')
                /\ Last(sessions').device = d
                /\ Last(sessions').end_time = NULL
                /\ req'[r].response = "Session started"]_vars

\* the fields of the fixed frame shapes
FrameFields ==
    [settings |-> {"type", "data"},
     session_status |-> {"type", "action", "has_active_session", "is_idle"},
     posture_data_response |-> {"type", "status", "error"},
     exit_idle_mode_response |-> {"type", "status", "error"},
     error |-> {"type", "error"}]

SettingsDataFields ==
    {"sensitivity", "vibration_intensity", "audio_intensity", "has_active_session", "is_idle"}

\* the frame carries the text of an internal exception
CarriesExceptionText(frame) ==
    \/ /\ "error" \in DOMAIN frame
       /\ frame.error \in {DatabaseErrorText, AttributeErrorText,
                            "Error processing message: " \o AttributeErrorText}
    \/ /\ frame.type = "settings"
       /\ "error" \in DOMAIN frame.data

\* C29: every outbound frame has one of the fixed shapes (settings,
\* session_status, posture_data_response, exit_idle_mode_response, error) with
\* only that shape's fields, and no frame carries internal exception text; a
\* storage failure while the settings snapshot is built never yields a
\* settings frame with an extra error field or fabricated zeros.
C29_FramesHaveFixedShapes ==
    \A c \in DOMAIN out : \A i \in DOMAIN out[c] :
        LET frame == out[c][i]
        IN /\ frame.type \in DOMAIN FrameFields
           /\ DOMAIN frame \subseteq FrameFields[frame.type]
           /\ frame.type = "settings" => DOMAIN frame.data \subseteq SettingsDataFields
           /\ ~CarriesExceptionText(frame)

C31_SettingsRequestAnsweredFromStore ==
    [][\A c \in DOMAIN conn :
          receive_settings_request(c)
          => LET d == conn[c].device.id
             IN /\ OneAppended(out[c], out'[c])
                /\ Last(out'[c]).type = "settings"
                /\ Last(out'[c]).data.sensitivity = device[d].sensitivity
                /\ Last(out'[c]).data.vibration_intensity = device[d].vibration_intensity
                /\ Last(out'[c]).data.audio_intensity = device[d].audio_intensity]_vars

\* C32: every connection whose handshake id is accepted by authentication as
\* device D, in whatever textual form the id was written, is subscribed to
\* the channel that publishers for D send to, and so receives every event
\* published for D while it is open.
C32_SubscribedToPublishersChannel ==
    \A c \in DOMAIN conn :
        Open(c) => c \in groups[str(conn[c].device.id)]

\* the step of REST thread r publishes an event for device a
PublishesFor(r, a) == \E v \in SettingValues : device_update(r, a, v)

\* the Session rows of device b
SessionsOf(b) == SelectSeq(sessions, LAMBDA x : x.device = b)

\* C33: an event published for device A never causes any frame to be sent on
\* a connection authenticated for a different device B, and never changes B's
\* stored state: the publish is queued for no connection of another device
\* and changes no row of another device, and the handling of an event sends
\* a frame only on a connection of the device the event names and writes
\* only that device's row.
C33_EventsStayWithTheirDevice ==
    [][/\ \A r \in DOMAIN req, a \in DOMAIN device :
            PublishesFor(r, a)
            => /\ \A c \in DOMAIN conn :
                     conn[c].device.id # a => mailbox'[c] = mailbox[c] /\ out'[c] = out[c]
               /\ \A b \in DOMAIN device \ {a} :
                     device'[b] = device[b] /\ SessionsOf(b)' = SessionsOf(b)
       /\ \A c \in DOMAIN conn :
            device_settings_update(c)
            => LET a == Head(mailbox[c]).device_id
               IN /\ \A o \in DOMAIN conn :
                        out'[o] # out[o] => str(conn[o].device.id) = a
                  /\ \A b \in DOMAIN device :
                        str(b) # a => device'[b] = device[b]
                  /\ sessions' = sessions /\ readings' = readings]_vars

\* a connection of d1 was sent the frame of an update of d1 while a
\* connection of d9 is open and was sent nothing but its first frame
C33_Witness ==
    \E c, o \in DOMAIN conn :
        /\ Open(c) /\ conn[c].device.id = "d1"
        /\ Open(o) /\ conn[o].device.id = "d9" /\ conn[o].group_name = "d9"
        /\ device["d1"].sensitivity = 0 /\ device["d9"].sensitivity = DefaultIntensity
        /\ Len(out[c]) = 2 /\ out[c][2].data.sensitivity = 0
        /\ Len(out[o]) = 1 /\ mailbox[o] = <<>>

\* C34: the teardown of a connection that never authenticated (closed during
\* the handshake for a bad id or key) never ends any session and never
\* removes any subscription: only connections that authenticated as device D
\* can end D's active session by disconnecting.
C34_UnauthenticatedTeardownEndsNothing ==
    [][\A c \in DOMAIN conn :
          /\ conn[c].device = NoDevice /\ conn'[c] # conn[c] /\ conn[c].state # "connecting"
             => /\ conn'[c].state = "closed"
                /\ UNCHANGED <<sessions, groups, stopped_by>>
          /\ \A i \in DOMAIN sessions :
                (/\ disconnect_stop(c)
                 /\ sessions[i].end_time = NULL
                 /\ sessions'[i].end_time # NULL)
                => /\ conn[c].accepted
                   /\ conn[c].device.id = sessions[i].device]_vars

\* a refused connection was torn down, and the session was ended by the
\* teardown of the connection that had authenticated
C34_Witness ==
    \E c, o \in DOMAIN conn :
        /\ conn[c].state = "closed" /\ conn[c].device = NoDevice
        /\ conn[c].close_code = CloseCodeAuthFailed
        /\ conn[o].state = "closed" /\ conn[o].accepted
        /\ \E i \in DOMAIN sessions :
              /\ sessions[i].end_time # NULL
              /\ stopped_by[i] = {o}
              /\ sessions[i].device = conn[o].device.id

\* C35: a device's last_seen changes only as a result of a successful
\* authentication or of an inbound frame sent by that device: handling a bus
\* event (a settings or session change made through REST) on an open
\* connection leaves last_seen unchanged.
C35_BusEventLeavesLastSeen ==
    [][\A c \in DOMAIN conn :
          device_settings_update(c)
          => \A d \in DOMAIN device : device'[d].last_seen = device[d].last_seen]_vars

\* C36: closing any one authenticated connection of a device ends the
\* device's active session even when other connections for the same device
\* are still open, so the session's lifetime is bounded by the first of its
\* device's connections to close.
C36_FirstCloseEndsSession ==
    [][\A c \in DOMAIN conn :
          (/\ conn[c].accepted
           /\ conn[c].state # "closed"
           /\ conn'[c].state = "closed"
           /\ \E o \in DOMAIN conn \ {c} : Open(o) /\ conn[o].device.id = conn[c].device.id)
          => ~has_active_session(conn[c].device.id)']_vars

\* Two REST threads and a device whose session was started before and has
\* one reading; sessions are started and stopped, no reading is added.
InitRanks ==
    /\ clock = 0
    /\ device = [d \in {"d1"} |-> ClaimedDevice]
    /\ sessions = <<ActiveSession("d1")>>
    /\ readings = <<[device |-> "d1", timestamp |-> 0, overall_score |-> 1,
                     components |-> ValidPayload]>>
    /\ groups = [g \in IdTexts |-> {}]
    /\ mailbox = <<>>
    /\ conn = <<>>
    /\ out = <<>>
    /\ req = [r \in {"r1", "r2"} |-> IdleRequest]
    /\ stopped_by = <<{}>>

NextRanks ==
    \/ Tick
    \/ \E r \in DOMAIN req, d \in DOMAIN device : session_start_put(r, d)
    \/ \E r \in DOMAIN req : session_start_create(r)
    \/ \E r \in DOMAIN req, d \in DOMAIN device : session_stop_put(r, d)
    \/ \E r \in DOMAIN req : session_stop_save(r)

SpecRanks == InitRanks /\ [][NextRanks]_vars

\* the frame reports has_active_session false
ReportsInactive(frame) ==
    \/ frame.type = "settings" /\ ~frame.data.has_active_session
    \/ frame.type = "session_status" /\ ~frame.has_active_session

\* C37: whenever a device's active session is ended, by whichever path (REST
\* stop, disconnect of one connection, heartbeat inactivity on one
\* connection), every other connection still open for that device is
\* eventually sent a frame reporting has_active_session false.
C37_OpenConnectionsToldOfEnd ==
    \A o \in {"c1", "c2"} :
        (Open(o) /\ CanSend(o) /\ ~has_active_session(conn[o].device.id))
        ~> (~Open(o) \/ \E i \in DOMAIN out[o] : ReportsInactive(out[o][i]))

\* _process_session_data: the readings of the device created during the
\* session; with none of them it returns before any rank is touched
session_readings(s) ==
    {i \in DOMAIN readings :
        /\ readings[i].device = sessions[s].device
        /\ readings[i].timestamp >= sessions[s].start_time
        /\ readings[i].timestamp <= sessions[s].end_time}

\* C38: for each Session, the end-of-session rank processing
\* (_process_session_data awarding points to the owner) is performed at most
\* once, even when two REST stop requests for the same device are handled
\* concurrently.
C38_RankProcessingOnce ==
    \A s \in DOMAIN sessions :
        (sessions[s].end_time # NULL /\ session_readings(s) # {})
        => Cardinality({r \in DOMAIN req : r \in stopped_by[s]}) <= 1

====
